---- MODULE Spec2Model ----
(***************************************************************************)
(* Model of the passwordless login flow of pages/login.tsx.                *)
(*                                                                         *)
(* The page holds four jotai atoms (username, otp, loading, step) and two  *)
(* components, EnterUsername and EnterOtp, of which exactly one is mounted *)
(* depending on the step atom.  The handlers start network calls whose     *)
(* promise chains (then / catch / finally) run when the call settles.      *)
(*                                                                         *)
(* JavaScript is single threaded: an event handler runs to completion, and *)
(* the reactions of a settled promise (its then or catch callback followed *)
(* by its finally callback) run as consecutive microtasks that no user     *)
(* event and no other network completion can interleave with.  Each        *)
(* handler and each settlement is therefore one action.                    *)
(*                                                                         *)
(* Strings typed by the user are sequences of one-character strings, so    *)
(* that validation and trimming are computed character by character.       *)
(***************************************************************************)
EXTENDS Integers, Sequences, FiniteSets, TLC

(* ---------------------------- bounds ---------------------------------- *)
MaxUsernameLen == 1
MaxOtpLen == 2
MaxLogins == 2

(* ------------------------- character classes --------------------------- *)
Letters == {"a"}
Digits == {"7"}
Whitespace == {" "}
UsernameChars == {"a", "7", "-"}
OtpChars == {" ", "1"}

StringsOver(chars, n) == UNION {[1..k -> chars] : k \in 0..n}

EmptyString == <<>>

(* USERNAME_REGEX of lib/constants: letters and digits only, at least one. *)
USERNAME_REGEX_test(s) ==
    /\ Len(s) >= 1
    /\ \A i \in 1..Len(s) : s[i] \in Letters \cup Digits

(* String.prototype.trim: drops leading and trailing white space. *)
RECURSIVE trimStart(_)
trimStart(s) ==
    IF s # <<>> /\ Head(s) \in Whitespace THEN trimStart(Tail(s)) ELSE s

RECURSIVE trimEnd(_)
trimEnd(s) ==
    IF s # <<>> /\ s[Len(s)] \in Whitespace
    THEN trimEnd(SubSeq(s, 1, Len(s) - 1))
    ELSE s

trim(s) == trimEnd(trimStart(s))

(* ----------------------------- messages -------------------------------- *)
(* t(key): the translation of a message key; the key stands for the text. *)
t(key) == key

toast_error(msg) == [kind |-> "error", msg |-> msg]
toast_success(msg) == [kind |-> "success", msg |-> msg]

(* A truthy status: an absent status property (undefined) and 0 are both  *)
(* falsy; 0 stands for the absent status of a transport error.            *)
NoStatus == 0
Truthy(n) == n # 0

(* What a rejected fetch carries: a status and statusText, or a message. *)
ErrorResponses ==
    { [status |-> 401, statusText |-> "Unauthorized", message |-> ""],
      [status |-> 500, statusText |-> "Server Error", message |-> ""],
      [status |-> NoStatus, statusText |-> "", message |-> "Failed to fetch"] }

(* The user records a successful login response may carry. *)
Users ==
    { [access_token |-> "tok", cohort |-> "c1",
       email |-> "alice1@duck.com", username |-> "alice1"],
      [access_token |-> "tok2", cohort |-> "c2",
       email |-> "bob2@duck.com", username |-> "bob2"] }

(* The addresses a successful alias generation may return. *)
Addresses == {"xyz123@duck.com"}

(* maskEmail of utils/maskEmail: a deterministic display form of an email. *)
maskEmail(email) == "mask(" \o email \o ")"

(* store.addAccount of utils/store: appends the record and returns its    *)
(* index, counted from 0.                                                 *)
addAccount(accounts, record) ==
    [accounts |-> Append(accounts, record), index |-> Len(accounts)]

(* The navigation target of router.push. *)
emailUrl(userIndex) == "/email/?id=" \o ToString(userIndex)

RemoveAt(s, i) == SubSeq(s, 1, i - 1) \o SubSeq(s, i + 1, Len(s))

(* ------------------------------- state --------------------------------- *)
VARIABLES
    username,      \* usernameAtom
    otp,           \* otpAtom
    loading,       \* loadingAtom
    step,          \* stepAtom
    otpRequests,   \* OTP requests in flight: the payload of each
    loginRequests, \* login requests in flight: the payload of each
    aliasCalls,    \* generateAddresses calls in flight: the user of each
    accounts,      \* the account store
    pushes,        \* router.push targets, in order
    toasts,        \* the toasts shown by the last step
    calls,         \* the calls to collaborators made by the last step, in order
    lastEvent,     \* the last step taken and the data it handled
    attempt,       \* history: the OTP request that opened the current attempt
    loginCount,    \* login requests issued so far
    loginOkCount   \* login requests that completed successfully so far

vars == <<username, otp, loading, step, otpRequests, loginRequests,
          aliasCalls, accounts, pushes, toasts, calls, lastEvent,
          attempt, loginCount, loginOkCount>>

Event(type) == [type |-> type]

(* No OTP request has completed successfully since the flow was last at   *)
(* EnterUsername by a fresh load or by Back.                               *)
NoAttempt == [otpCompleted |-> FALSE, identifier |-> EmptyString]

Init ==
    /\ username = EmptyString
    /\ otp = EmptyString
    /\ loading = FALSE
    /\ step = "EnterUsername"
    /\ otpRequests = <<>>
    /\ loginRequests = <<>>
    /\ aliasCalls = <<>>
    /\ accounts = <<>>
    /\ pushes = <<>>
    /\ toasts = <<>>
    /\ calls = <<>>
    /\ lastEvent = Event("init")
    /\ attempt = NoAttempt
    /\ loginCount = 0
    /\ loginOkCount = 0

(* --------------------------- EnterUsername ----------------------------- *)
(* The component is mounted only while step is EnterUsername. *)
EnterUsernameMounted == step = "EnterUsername"

(* Variant: the submit button is never disabled. *)
SubmitEnabled_Always == TRUE

(* The submit button is disabled while loading. *)
SubmitEnabled == ~loading

usernameHandleChange ==
    /\ EnterUsernameMounted
    /\ \E value \in StringsOver(UsernameChars, MaxUsernameLen) :
          /\ value # username
          /\ username' = value
    /\ toasts' = <<>>
    /\ calls' = <<>>
    /\ lastEvent' = Event("usernameChange")
    /\ UNCHANGED <<otp, loading, step, otpRequests, loginRequests,
                   aliasCalls, accounts, pushes, attempt,
                   loginCount, loginOkCount>>

(* Variant: the identifier is checked for emptiness only. *)
EnterUsernameContinueHandle_NoRegex ==
    /\ step = "EnterUsername"
    /\ ~loading
    /\ IF username = EmptyString
       THEN /\ toasts' = <<toast_error(t("Duck Address cannot be empty"))>>
            /\ calls' = <<"toast.error">>
            /\ lastEvent' = Event("usernameEmpty")
            /\ UNCHANGED <<loading, otpRequests>>
       ELSE /\ loading' = TRUE
            /\ otpRequests' = Append(otpRequests, [username |-> username])
            /\ toasts' = <<>>
            /\ calls' = <<"otpRequest">>
            /\ lastEvent' = Event("otpRequest")
    /\ UNCHANGED <<username, otp, step, loginRequests, aliasCalls, accounts,
                   pushes, attempt, loginCount, loginOkCount>>

(* Variant: the pattern is tested before the emptiness of the identifier. *)
EnterUsernameContinueHandle_RegexFirst ==
    /\ step = "EnterUsername"
    /\ ~loading
    /\ IF ~USERNAME_REGEX_test(username)
       THEN /\ toasts' = <<toast_error(
                   t("Duck Address can only contain letters and numbers"))>>
            /\ calls' = <<"toast.error">>
            /\ lastEvent' = Event("usernameInvalid")
            /\ UNCHANGED <<loading, otpRequests>>
       ELSE /\ loading' = TRUE
            /\ otpRequests' = Append(otpRequests, [username |-> username])
            /\ toasts' = <<>>
            /\ calls' = <<"otpRequest">>
            /\ lastEvent' = Event("otpRequest")
    /\ UNCHANGED <<username, otp, step, loginRequests, aliasCalls, accounts,
                   pushes, attempt, loginCount, loginOkCount>>

otpRequest(name) == [username |-> name]

EnterUsernameContinueHandle ==
    /\ EnterUsernameMounted
    /\ SubmitEnabled
    /\ IF username = EmptyString
       THEN /\ toasts' = <<toast_error(t("Duck Address cannot be empty"))>>
            /\ calls' = <<"toast.error">>
            /\ lastEvent' = Event("usernameEmpty")
            /\ UNCHANGED <<loading, otpRequests>>
       ELSE IF ~USERNAME_REGEX_test(username)
       THEN /\ toasts' = <<toast_error(
                   t("Duck Address can only contain letters and numbers"))>>
            /\ calls' = <<"toast.error">>
            /\ lastEvent' = Event("usernameInvalid")
            /\ UNCHANGED <<loading, otpRequests>>
       ELSE /\ loading' = TRUE
            /\ otpRequests' = Append(otpRequests, otpRequest(username))
            /\ toasts' = <<>>
            /\ calls' = <<"otpRequest">>
            /\ lastEvent' = Event("otpRequest")
    /\ UNCHANGED <<username, otp, step, loginRequests, aliasCalls, accounts,
                   pushes, attempt, loginCount, loginOkCount>>

(* Variant: the then callback of the OTP request does not set the step. *)
OtpRequestThen_NoSetStep ==
    \E i \in 1..Len(otpRequests) :
        /\ otpRequests' = RemoveAt(otpRequests, i)
        /\ loading' = FALSE
        /\ attempt' = [otpCompleted |-> TRUE,
                        identifier |-> otpRequests[i].username]
        /\ toasts' = <<>>
        /\ calls' = <<>>
        /\ lastEvent' = Event("otpRequestOk")
        /\ UNCHANGED <<username, otp, step, loginRequests, aliasCalls,
                       accounts, pushes, loginCount, loginOkCount>>

(* otpRequest(...).then(setStep('EnterOtp')).finally(setLoading(false)) *)
OtpRequestThen ==
    \E i \in 1..Len(otpRequests) :
        /\ otpRequests' = RemoveAt(otpRequests, i)
        /\ step' = "EnterOtp"
        /\ loading' = FALSE
        /\ attempt' = [otpCompleted |-> TRUE,
                        identifier |-> otpRequests[i].username]
        /\ toasts' = <<>>
        /\ calls' = <<>>
        /\ lastEvent' = Event("otpRequestOk")
        /\ UNCHANGED <<username, otp, loginRequests, aliasCalls, accounts,
                       pushes, loginCount, loginOkCount>>

(* Variant: the message is shown whether or not a status is present. *)
requestErrorMessage_MessageOnly(res) == res.message

(* The text of the toast of a failed OTP request. *)
requestErrorMessage(res) ==
    IF Truthy(res.status)
    THEN ToString(res.status) \o " - " \o res.statusText
    ELSE res.message

(* Variant: a failed OTP request advances the step all the same. *)
OtpRequestCatch_Advances ==
    \E i \in 1..Len(otpRequests), res \in ErrorResponses :
        /\ otpRequests' = RemoveAt(otpRequests, i)
        /\ toasts' = <<toast_error(requestErrorMessage(res))>>
        /\ step' = "EnterOtp"
        /\ loading' = FALSE
        /\ calls' = <<"toast.error">>
        /\ lastEvent' = [type |-> "otpRequestFailed", res |-> res]
        /\ UNCHANGED <<username, otp, loginRequests, aliasCalls,
                       accounts, pushes, attempt, loginCount,
                       loginOkCount>>

(* Variant: the chain of a failed OTP request has no finally callback. *)
OtpRequestCatch_NoFinally ==
    \E i \in 1..Len(otpRequests), res \in ErrorResponses :
        /\ otpRequests' = RemoveAt(otpRequests, i)
        /\ toasts' = <<toast_error(requestErrorMessage(res))>>
        /\ calls' = <<"toast.error">>
        /\ lastEvent' = [type |-> "otpRequestFailed", res |-> res]
        /\ UNCHANGED <<username, otp, loading, step, loginRequests,
                       aliasCalls, accounts, pushes, attempt, loginCount,
                       loginOkCount>>

(* otpRequest(...).catch(toast.error(...)).finally(setLoading(false)) *)
OtpRequestCatch ==
    \E i \in 1..Len(otpRequests), res \in ErrorResponses :
        /\ otpRequests' = RemoveAt(otpRequests, i)
        /\ toasts' = <<toast_error(requestErrorMessage(res))>>
        /\ loading' = FALSE
        /\ calls' = <<"toast.error">>
        /\ lastEvent' = [type |-> "otpRequestFailed", res |-> res]
        /\ UNCHANGED <<username, otp, step, loginRequests, aliasCalls,
                       accounts, pushes, attempt, loginCount,
                       loginOkCount>>

(* ------------------------------ EnterOtp ------------------------------- *)
EnterOtpMounted == step = "EnterOtp"

otpHandleChange ==
    /\ EnterOtpMounted
    /\ \E value \in StringsOver(OtpChars, MaxOtpLen) :
          /\ value # otp
          /\ otp' = value
    /\ toasts' = <<>>
    /\ calls' = <<>>
    /\ lastEvent' = Event("otpChange")
    /\ UNCHANGED <<username, loading, step, otpRequests, loginRequests,
                   aliasCalls, accounts, pushes, attempt, loginCount,
                   loginOkCount>>

loginRequest(name, passphrase) == [username |-> name, otp |-> passphrase]

EnterOtpContinueHandle ==
    /\ EnterOtpMounted
    /\ SubmitEnabled
    /\ IF otp = EmptyString
       THEN /\ toasts' =
                 <<toast_error(t("One-time Passphrase cannot be empty"))>>
            /\ calls' = <<"toast.error">>
            /\ lastEvent' = Event("otpEmpty")
            /\ UNCHANGED <<loading, loginRequests, loginCount>>
       ELSE /\ loginCount < MaxLogins
            /\ loading' = TRUE
            /\ loginRequests' =
                 Append(loginRequests, loginRequest(username, trim(otp)))
            /\ loginCount' = loginCount + 1
            /\ toasts' = <<>>
            /\ calls' = <<"loginRequest">>
            /\ lastEvent' = Event("loginRequest")
    /\ UNCHANGED <<username, otp, step, otpRequests, aliasCalls, accounts,
                   pushes, attempt, loginOkCount>>

(* Variant: the account is persisted as soon as the login response comes, *)
(* without an alias call.                                                  *)
LoginRequestThen_PersistsAtOnce ==
    \E i \in 1..Len(loginRequests), user \in Users :
        /\ loginRequests' = RemoveAt(loginRequests, i)
        /\ accounts' = Append(accounts,
               [access_token |-> user.access_token, cohort |-> user.cohort,
                email |-> user.email, username |-> user.username,
                remark |-> maskEmail(user.email), nextAlias |-> ""])
        /\ pushes' = Append(pushes, emailUrl(Len(accounts)))
        /\ loading' = FALSE
        /\ loginOkCount' = loginOkCount + 1
        /\ toasts' = <<toast_success(t("Login Success"))>>
        /\ calls' = <<"store.addAccount", "router.push", "toast.success">>
        /\ lastEvent' = [type |-> "loginOk", user |-> user]
        /\ UNCHANGED <<username, otp, step, otpRequests, aliasCalls,
                       attempt, loginCount>>

(* Variant: a login response that arrives after Back is dropped. *)
LoginRequestThen_DroppedAfterBack ==
    \E i \in 1..Len(loginRequests), user \in Users :
        /\ loginRequests' = RemoveAt(loginRequests, i)
        /\ IF step = "EnterOtp"
           THEN /\ aliasCalls' = Append(aliasCalls, user)
                /\ calls' = <<"generateAddresses">>
           ELSE /\ aliasCalls' = aliasCalls
                /\ calls' = <<>>
        /\ loading' = FALSE
        /\ loginOkCount' = loginOkCount + 1
        /\ toasts' = <<>>
        /\ lastEvent' = [type |-> "loginOk", user |-> user]
        /\ UNCHANGED <<username, otp, step, otpRequests, accounts, pushes,
                       attempt, loginCount>>

(* Variant: the finally callback of the login chain is missing on success. *)
LoginRequestThen_KeepsLoading ==
    \E i \in 1..Len(loginRequests), user \in Users :
        /\ loginRequests' = RemoveAt(loginRequests, i)
        /\ aliasCalls' = Append(aliasCalls, user)
        /\ loginOkCount' = loginOkCount + 1
        /\ toasts' = <<>>
        /\ calls' = <<"generateAddresses">>
        /\ lastEvent' = [type |-> "loginOk", user |-> user]
        /\ UNCHANGED <<username, otp, loading, step, otpRequests, accounts,
                       pushes, attempt, loginCount>>

(* Variant: a successful login resets the flow to its first step. *)
LoginRequestThen_ResetsFlow ==
    \E i \in 1..Len(loginRequests), user \in Users :
        /\ loginRequests' = RemoveAt(loginRequests, i)
        /\ aliasCalls' = Append(aliasCalls, user)
        /\ loading' = FALSE
        /\ otp' = EmptyString
        /\ step' = "EnterUsername"
        /\ loginOkCount' = loginOkCount + 1
        /\ toasts' = <<>>
        /\ calls' = <<"generateAddresses">>
        /\ lastEvent' = [type |-> "loginOk", user |-> user]
        /\ UNCHANGED <<username, otpRequests, accounts, pushes,
                       attempt, loginCount>>

(* loginRequest(...).then(res => { generateAddresses(user.access_token)    *)
(* ... }).finally(setLoading(false)): the then callback starts the alias   *)
(* call and does not return its promise, so the outer chain goes on to its *)
(* finally callback without waiting for the alias call.                    *)
LoginRequestThen ==
    \E i \in 1..Len(loginRequests), user \in Users :
        /\ loginRequests' = RemoveAt(loginRequests, i)
        /\ aliasCalls' = Append(aliasCalls, user)
        /\ loading' = FALSE
        /\ loginOkCount' = loginOkCount + 1
        /\ toasts' = <<>>
        /\ calls' = <<"generateAddresses">>
        /\ lastEvent' = [type |-> "loginOk", user |-> user]
        /\ UNCHANGED <<username, otp, step, otpRequests, accounts, pushes,
                       attempt, loginCount>>

(* Variant: status 401 is not told apart from the other statuses. *)
loginErrorMessage_No401(res) ==
    IF Truthy(res.status)
    THEN ToString(res.status) \o " - " \o res.statusText
    ELSE res.message

(* The text of the toast of a failed login request. *)
loginErrorMessage(res) ==
    IF Truthy(res.status)
    THEN IF res.status = 401
         THEN t("Unauthorized")
         ELSE ToString(res.status) \o " - " \o res.statusText
    ELSE res.message

(* Variant: a failed login sends the flow back to the first step. *)
LoginRequestCatch_BackToUsername ==
    \E i \in 1..Len(loginRequests), res \in ErrorResponses :
        /\ loginRequests' = RemoveAt(loginRequests, i)
        /\ toasts' = <<toast_error(loginErrorMessage(res))>>
        /\ step' = "EnterUsername"
        /\ loading' = FALSE
        /\ calls' = <<"toast.error">>
        /\ lastEvent' = [type |-> "loginFailed", res |-> res]
        /\ UNCHANGED <<username, otp, otpRequests, aliasCalls,
                       accounts, pushes, attempt, loginCount,
                       loginOkCount>>

(* login catch: toast.error(...), then finally(setLoading(false)) *)
LoginRequestCatch ==
    \E i \in 1..Len(loginRequests), res \in ErrorResponses :
        /\ loginRequests' = RemoveAt(loginRequests, i)
        /\ toasts' = <<toast_error(loginErrorMessage(res))>>
        /\ loading' = FALSE
        /\ calls' = <<"toast.error">>
        /\ lastEvent' = [type |-> "loginFailed", res |-> res]
        /\ UNCHANGED <<username, otp, step, otpRequests, aliasCalls,
                       accounts, pushes, attempt, loginCount,
                       loginOkCount>>

(* Variant: the record never carries the generated alias. *)
AccountRecord_NoAlias(user, nextAlias) ==
    [access_token |-> user.access_token, cohort |-> user.cohort,
     email |-> user.email, username |-> user.username,
     remark |-> maskEmail(user.email), nextAlias |-> ""]

(* The record handed to store.addAccount. *)
AccountRecord(user, nextAlias) ==
    [access_token |-> user.access_token, cohort |-> user.cohort,
     email |-> user.email, username |-> user.username,
     remark |-> maskEmail(user.email), nextAlias |-> nextAlias]

(* generateAddresses(...).then(addAccount; router.push).finally(toast) *)
GenerateAddressesThen ==
    \E i \in 1..Len(aliasCalls), address \in Addresses :
        LET user == aliasCalls[i]
            added == addAccount(accounts, AccountRecord(user, address))
            userIndex == added.index
        IN  /\ aliasCalls' = RemoveAt(aliasCalls, i)
            /\ accounts' = added.accounts
            /\ pushes' = Append(pushes, emailUrl(userIndex))
            /\ toasts' = <<toast_success(t("Login Success"))>>
            /\ calls' = <<"store.addAccount", "router.push", "toast.success">>
            /\ lastEvent' = [type |-> "aliasOk", user |-> user,
                             address |-> address, userIndex |-> userIndex]
            /\ UNCHANGED <<username, otp, loading, step, otpRequests,
                           loginRequests, attempt, loginCount,
                           loginOkCount>>

(* Variant: a failed alias call is only logged. *)
GenerateAddressesCatch_LogOnly ==
    \E i \in 1..Len(aliasCalls) :
        /\ aliasCalls' = RemoveAt(aliasCalls, i)
        /\ toasts' = <<toast_success(t("Login Success"))>>
        /\ calls' = <<"toast.success">>
        /\ lastEvent' = [type |-> "aliasFailed", user |-> aliasCalls[i],
                         userIndex |-> Len(accounts)]
        /\ UNCHANGED <<username, otp, loading, step, otpRequests,
                       loginRequests, accounts, pushes, attempt, loginCount,
                       loginOkCount>>

(* generateAddresses(...).catch(addAccount; router.push).finally(toast) *)
GenerateAddressesCatch ==
    \E i \in 1..Len(aliasCalls) :
        LET user == aliasCalls[i]
            added == addAccount(accounts, AccountRecord(user, ""))
            userIndex == added.index
        IN  /\ aliasCalls' = RemoveAt(aliasCalls, i)
            /\ accounts' = added.accounts
            /\ pushes' = Append(pushes, emailUrl(userIndex))
            /\ toasts' = <<toast_success(t("Login Success"))>>
            /\ calls' = <<"store.addAccount", "router.push", "toast.success">>
            /\ lastEvent' = [type |-> "aliasFailed", user |-> user,
                             userIndex |-> userIndex]
            /\ UNCHANGED <<username, otp, loading, step, otpRequests,
                           loginRequests, attempt, loginCount,
                           loginOkCount>>

(* Variant: Back leaves the OTP value in place. *)
backOnClick_KeepsOtp(atoms) == [atoms EXCEPT !.step = "EnterUsername"]

(* The onClick of the Back button as a function of the atoms it sets. *)
backOnClick(atoms) ==
    [atoms EXCEPT !.otp = EmptyString, !.step = "EnterUsername"]

(* The Back button: setOtp(''); setStep('EnterUsername').  It is enabled   *)
(* whatever loading is.  The re-render that follows the click unmounts the *)
(* form before the browser would submit it, so continueHandle is not run.  *)
BackClick ==
    /\ EnterOtpMounted
    /\ LET after == backOnClick([otp |-> otp, step |-> step])
       IN  /\ otp' = after.otp
           /\ step' = after.step
    /\ toasts' = <<>>
    /\ calls' = <<>>
    /\ lastEvent' = Event("back")
    /\ attempt' = NoAttempt
    /\ UNCHANGED <<username, loading, otpRequests, loginRequests, aliasCalls,
                   accounts, pushes, loginCount, loginOkCount>>

Next ==
    \/ usernameHandleChange
    \/ EnterUsernameContinueHandle
    \/ OtpRequestThen
    \/ OtpRequestCatch
    \/ otpHandleChange
    \/ EnterOtpContinueHandle
    \/ LoginRequestThen
    \/ LoginRequestCatch
    \/ GenerateAddressesThen
    \/ GenerateAddressesCatch
    \/ BackClick

Spec == Init /\ [][Next]_vars

TypeOK ==
    /\ username \in StringsOver(UsernameChars, MaxUsernameLen)
    /\ otp \in StringsOver(OtpChars, MaxOtpLen)
    /\ loading \in BOOLEAN
    /\ step \in {"EnterUsername", "EnterOtp"}
    /\ loginCount \in 0..MaxLogins
    /\ loginOkCount \in 0..loginCount

(* ------------------------------ properties ------------------------------ *)
LastIndex(s) == Len(s)

(* C1: the step atom changes only from EnterUsername to EnterOtp when an   *)
(* OTP request completes successfully, and from EnterOtp to EnterUsername  *)
(* on Back; a failed OTP request and a failed login request (whatever its  *)
(* status) leave it unchanged.                                             *)
C1_StepChangesOnlyOnOtpSuccessOrBack ==
    [][/\ step' # step =>
            \/ /\ step = "EnterUsername"
               /\ step' = "EnterOtp"
               /\ lastEvent'.type = "otpRequestOk"
            \/ /\ step = "EnterOtp"
               /\ step' = "EnterUsername"
               /\ lastEvent'.type = "back"
       /\ lastEvent'.type \in {"otpRequestFailed", "loginFailed"} =>
            step' = step]_vars

(* A second attempt has been opened: the flow went forward, a login was    *)
(* issued, the flow went back, and an OTP request succeeded again.         *)
C1_Witness ==
    /\ lastEvent.type = "otpRequestOk"
    /\ step = "EnterOtp"
    /\ loginCount > 0

(* C2: a login request is issued only when an OTP request of the current   *)
(* attempt has completed successfully, and an alias call is started only   *)
(* by the step that handles a successful login response.                   *)
C2_RequestOrdering ==
    [][/\ Len(loginRequests') > Len(loginRequests) => attempt.otpCompleted
       /\ Len(aliasCalls') > Len(aliasCalls) =>
            /\ lastEvent'.type = "loginOk"
            /\ Len(loginRequests') = Len(loginRequests) - 1
            /\ loginOkCount' = loginOkCount + 1
            /\ Len(aliasCalls') = Len(aliasCalls) + 1]_vars

C2_Witness ==
    /\ lastEvent.type = "loginOk"
    /\ aliasCalls # <<>>
    /\ attempt.otpCompleted

(* C3: at most one OTP request and at most one login request is in flight. *)
C3_OneCallInFlight ==
    /\ Len(otpRequests) <= 1
    /\ Len(loginRequests) <= 1

(* The user has been active on the page while a login request is in       *)
(* flight and the submit button is disabled.                               *)
C3_Witness ==
    /\ Len(loginRequests) = 1
    /\ loading
    /\ lastEvent.type = "otpChange"

(* C4: loading is never false while an alias call is outstanding. *)
C4_LoadingHeldUntilAliasSettles ==
    aliasCalls # <<>> => loading

(* C5: the identifier of every login request issued is the identifier of   *)
(* the OTP request whose success opened the current attempt.               *)
C5_LoginIdentifierIsOtpIdentifier ==
    [][Len(loginRequests') > Len(loginRequests) =>
          loginRequests'[LastIndex(loginRequests')].username
              = attempt.identifier]_vars

(* C6: every successful login has either its alias call outstanding or     *)
(* exactly one account in the store and one navigation; the i-th           *)
(* navigation carries the index the store returned for the i-th account;   *)
(* and a step adds an account exactly when it settles an alias call, when  *)
(* it adds one account and one navigation.                                 *)
C6_OneAccountAndOneNavigationPerLogin ==
    [][/\ Len(accounts') + Len(aliasCalls') = loginOkCount'
       /\ Len(pushes') = Len(accounts')
       /\ \A i \in 1..Len(pushes') : pushes'[i] = emailUrl(i - 1)
       /\ Len(accounts') - Len(accounts) = Len(aliasCalls) - Len(aliasCalls')
            \/ lastEvent'.type = "loginOk"
       /\ lastEvent'.type \in {"aliasOk", "aliasFailed"} =>
            /\ Len(accounts') = Len(accounts) + 1
            /\ Len(pushes') = Len(pushes) + 1
            /\ pushes'[LastIndex(pushes')] = emailUrl(Len(accounts))]_vars

(* Two logins have succeeded, one alias call failed and one succeeded. *)
C6_Witness ==
    /\ loginOkCount = 2
    /\ aliasCalls = <<>>
    /\ Len(accounts) = 2
    /\ \E i, j \in 1..2 : accounts[i].nextAlias = "" /\ accounts[j].nextAlias # ""

(* C7: the step that settles an alias call persists the record of its      *)
(* user with nextAlias the generated address when the call succeeded and   *)
(* the empty string when it failed; in both cases it navigates and shows   *)
(* no error toast.                                                         *)
C7_DegradedSuccess ==
    [][lastEvent'.type \in {"aliasOk", "aliasFailed"} =>
          /\ Len(accounts') = Len(accounts) + 1
          /\ SubSeq(accounts', 1, Len(accounts)) = accounts
          /\ LET record == accounts'[LastIndex(accounts')]
                 user == lastEvent'.user
             IN  /\ record.nextAlias =
                        IF lastEvent'.type = "aliasOk"
                        THEN lastEvent'.address ELSE ""
                 /\ record.access_token = user.access_token
                 /\ record.email = user.email
                 /\ record.username = user.username
                 /\ record.cohort = user.cohort
          /\ Len(pushes') = Len(pushes) + 1
          /\ \A i \in 1..Len(toasts') : toasts'[i].kind # "error"]_vars

C7_Witness ==
    /\ lastEvent.type = "aliasFailed"
    /\ accounts # <<>>
    /\ accounts[LastIndex(accounts)].nextAlias = ""
    /\ Len(pushes) = Len(accounts)

(* C8: once the completion of an OTP request or of a login request has     *)
(* been handled, with success or with any failure, loading is false and    *)
(* the submit button is enabled.                                           *)
C8_LoadingResetOnCompletion ==
    lastEvent.type \in {"otpRequestOk", "otpRequestFailed",
                        "loginOk", "loginFailed"}
        => ~loading /\ SubmitEnabled

C8_Witness ==
    /\ lastEvent.type = "loginFailed"
    /\ lastEvent.res.status = NoStatus
    /\ ~loading

(* An identifier that fails validation: empty, or with a character that   *)
(* is neither a letter nor a digit.                                        *)
IdentifierInvalid(s) ==
    \/ s = EmptyString
    \/ \E i \in 1..Len(s) : s[i] \notin Letters /\ s[i] \notin Digits

SubmitIdentifierEvents == {"usernameEmpty", "usernameInvalid", "otpRequest"}

(* C9: submitting an identifier that fails validation starts no network    *)
(* call, shows the validation reason, and leaves the step at EnterUsername *)
(* and loading false.                                                      *)
C9_InvalidIdentifierIssuesNoCall ==
    [][(lastEvent'.type \in SubmitIdentifierEvents
            /\ IdentifierInvalid(username)) =>
          /\ UNCHANGED <<otpRequests, loginRequests, aliasCalls>>
          /\ step' = "EnterUsername"
          /\ ~loading'
          /\ toasts' = <<toast_error(
                 IF username = EmptyString
                 THEN "Duck Address cannot be empty"
                 ELSE "Duck Address can only contain letters and numbers")>>
       ]_vars

C9_Witness ==
    /\ lastEvent.type = "usernameInvalid"
    /\ username # EmptyString
    /\ IdentifierInvalid(username)
    /\ otpRequests = <<>>

(* C10: no login request in flight carries an empty OTP. *)
C10_LoginOtpNonEmpty ==
    \A i \in 1..Len(loginRequests) : loginRequests[i].otp # EmptyString

(* C11: once the successful completion of an OTP request has been handled, *)
(* the step is EnterOtp and loading is false.                              *)
C11_OtpSuccessAdvances ==
    lastEvent.type = "otpRequestOk" =>
        /\ step = "EnterOtp"
        /\ ~loading
        /\ otpRequests = <<>>

C11_Witness ==
    /\ lastEvent.type = "otpRequestOk"
    /\ attempt.identifier = <<"a">>
    /\ step = "EnterOtp"
    /\ ~loading

(* The message the claims give for a failed request. *)
StatusLine(res) == ToString(res.status) \o " - " \o res.statusText

ExpectedLoginFailureMessage(res) ==
    CASE res.status = 401 -> "Unauthorized"
      [] res.status # 401 /\ res.status # NoStatus -> StatusLine(res)
      [] res.status = NoStatus -> res.message

LoginFailureOutcome(stepAfter) ==
    lastEvent'.type = "loginFailed" =>
        /\ toasts' = <<toast_error(ExpectedLoginFailureMessage(lastEvent'.res))>>
        /\ (lastEvent'.res.status = 500
              /\ lastEvent'.res.statusText = "Server Error")
             => toasts'[1].msg = "500 - Server Error"
        /\ step' = stepAfter
        /\ ~loading'
        /\ accounts' = accounts
        /\ pushes' = pushes
        /\ aliasCalls' = aliasCalls

(* C12 as stated: a failed login shows "Unauthorized" for status 401,      *)
(* "<status> - <statusText>" for any other status and the transport        *)
(* message without a status; afterwards the step is EnterOtp, loading is   *)
(* false, and no account was persisted and no navigation made.             *)
C12_LoginFailureLeavesEnterOtp ==
    [][LoginFailureOutcome("EnterOtp")]_vars

(* C12, amended: the same messages; afterwards the step is what it was     *)
(* when the failure arrived (EnterOtp, or EnterUsername when Back was      *)
(* clicked while the request was in flight), loading is false, and no      *)
(* account was persisted and no navigation made.                           *)
C12_LoginFailureLeavesStep ==
    [][LoginFailureOutcome(step)]_vars

C12_Witness ==
    /\ lastEvent.type = "loginFailed"
    /\ lastEvent.res.status = 500
    /\ toasts = <<toast_error("500 - Server Error")>>
    /\ step = "EnterOtp"

(* C13: once a failed OTP request has been handled, loading is false, the  *)
(* step is EnterUsername, the toast is "<status> - <statusText>" when a    *)
(* status is present and the transport message otherwise, and the submit   *)
(* handler of EnterUsername can run again.                                 *)
C13_OtpFailureOutcome ==
    lastEvent.type = "otpRequestFailed" =>
        /\ ~loading
        /\ step = "EnterUsername"
        /\ toasts = <<toast_error(
               IF lastEvent.res.status # NoStatus
               THEN StatusLine(lastEvent.res)
               ELSE lastEvent.res.message)>>
        /\ ENABLED EnterUsernameContinueHandle

C13_Witness ==
    /\ lastEvent.type = "otpRequestFailed"
    /\ lastEvent.res.status = 401
    /\ toasts = <<toast_error("401 - Unauthorized")>>

(* C14: a click on Back leaves the step at EnterUsername and the OTP       *)
(* empty, starts no call and keeps the identifier; its effect applied to   *)
(* its own result changes nothing.                                         *)
C14_BackResetsIdempotently ==
    [][lastEvent'.type = "back" =>
          /\ step' = "EnterUsername"
          /\ otp' = EmptyString
          /\ username' = username
          /\ UNCHANGED <<otpRequests, loginRequests, aliasCalls, loading>>
          /\ calls' = <<>>
          /\ LET once == backOnClick([otp |-> otp, step |-> step])
             IN  /\ once = [otp |-> otp', step |-> step']
                 /\ backOnClick(once) = once]_vars

C14_Witness ==
    /\ lastEvent.type = "back"
    /\ username # EmptyString
    /\ otp = EmptyString
    /\ step = "EnterUsername"
    /\ loginRequests = <<>>

IdentifierValid(s) ==
    /\ s # EmptyString
    /\ \A i \in 1..Len(s) : s[i] \in Letters \/ s[i] \in Digits

(* C15: a submitted identifier passes validation exactly when it is not    *)
(* empty and made of letters and digits only; the empty identifier is      *)
(* rejected as empty, and a non-empty one with another character as        *)
(* having invalid characters.                                              *)
C15_ValidationResult ==
    lastEvent.type \in SubmitIdentifierEvents =>
        /\ lastEvent.type = "otpRequest" <=> IdentifierValid(username)
        /\ username = EmptyString =>
             /\ lastEvent.type = "usernameEmpty"
             /\ toasts = <<toast_error("Duck Address cannot be empty")>>
        /\ (username # EmptyString /\ ~IdentifierValid(username)) =>
             /\ lastEvent.type = "usernameInvalid"
             /\ toasts = <<toast_error(
                    "Duck Address can only contain letters and numbers")>>

C15_Witness ==
    /\ lastEvent.type = "otpRequest"
    /\ username = <<"7">>
    /\ Len(otpRequests) = 1

AliasEvents == {"aliasOk", "aliasFailed"}

(* C16: the store and the navigation change only in the step that settles  *)
(* an alias call; that step calls addAccount, then router.push, then       *)
(* toast.success; a failed alias call shows no error, and the failure      *)
(* path of the login request is taken only by a login request in flight.   *)
C16_AliasSequencing ==
    [][/\ (accounts' # accounts \/ pushes' # pushes) =>
            /\ lastEvent'.type \in AliasEvents
            /\ Len(aliasCalls') = Len(aliasCalls) - 1
       /\ lastEvent'.type \in AliasEvents =>
            /\ calls' = <<"store.addAccount", "router.push", "toast.success">>
            /\ toasts' = <<toast_success("Login Success")>>
            /\ loginRequests' = loginRequests
       /\ lastEvent'.type = "loginFailed" =>
            /\ Len(loginRequests') = Len(loginRequests) - 1
            /\ aliasCalls' = aliasCalls]_vars

(* An alias call failed although a login request was in flight, which is   *)
(* left in flight.                                                         *)
C16_Witness ==
    /\ lastEvent.type = "aliasFailed"
    /\ calls = <<"store.addAccount", "router.push", "toast.success">>
    /\ Len(loginRequests) = 1
    /\ Len(accounts) = 1

(* C17: a login request in flight keeps loading true and the submit of     *)
(* EnterUsername blocked, also after Back; its success is handled whatever *)
(* the step is and always starts the alias call, whose settlement, again   *)
(* whatever the step is, can always be handled.                            *)
C17_LoginNotCancellable ==
    /\ loginRequests # <<>> =>
         /\ loading
         /\ ~ENABLED EnterUsernameContinueHandle
         /\ ENABLED LoginRequestThen
    /\ lastEvent.type = "loginOk" => aliasCalls # <<>>
    /\ aliasCalls # <<>> =>
         /\ ENABLED GenerateAddressesThen
         /\ ENABLED GenerateAddressesCatch
    /\ lastEvent.type \in AliasEvents =>
         /\ accounts # <<>>
         /\ Len(pushes) = Len(accounts)
         /\ accounts[LastIndex(accounts)].username = lastEvent.user.username

(* Back was clicked while the only login request was in flight, and the    *)
(* request has then succeeded.                                             *)
C17_Witness ==
    /\ lastEvent.type = "loginOk"
    /\ loginCount = 1
    /\ step = "EnterUsername"
    /\ aliasCalls # <<>>

(* C18: loading is true exactly when an OTP request or a login request is  *)
(* in flight; alias calls do not count.                                    *)
C18_LoadingIffRequestInFlight ==
    loading <=> (otpRequests # <<>> \/ loginRequests # <<>>)

C18_Witness ==
    /\ loading
    /\ Len(otpRequests) = 1
    /\ aliasCalls # <<>>

(* C19: the steps that handle a successful login and the settlement of an  *)
(* alias call leave the step, the identifier and the OTP value unchanged;  *)
(* after a successful login that Back did not cancel the step is EnterOtp  *)
(* and the identifier is the one the login request carried.                *)
C19_LoginSuccessKeepsFlow ==
    [][lastEvent'.type \in {"loginOk"} \cup AliasEvents =>
          /\ UNCHANGED <<step, username, otp>>
          /\ (lastEvent'.type = "loginOk" /\ step = "EnterOtp") =>
               /\ step' = "EnterOtp"
               /\ Len(loginRequests) = 1
               /\ username' = loginRequests[1].username]_vars

C19_Witness ==
    /\ lastEvent.type \in AliasEvents
    /\ step = "EnterOtp"
    /\ otp # EmptyString
    /\ aliasCalls = <<>>
    /\ loginCount = 1
    /\ Len(accounts) = 1
====
